---- MODULE Spec2Model ----
(***************************************************************************)
(* Model of the deploy-website HTTP service (secure variant,               *)
(* src/src/index-secure.ts): the filename sanitizer, the path guard and    *)
(* the Deploy / Upload / List / Delete handlers acting on the storage      *)
(* root.  Strings are sequences of one-character strings; paths follow     *)
(* Node's POSIX `path` module (the service is deployed on Linux).          *)
(***************************************************************************)
EXTENDS Integers, Sequences, FiniteSets, TLC

(***************************************************************************)
(* Generic string helpers (JavaScript String methods used by the code).    *)
(***************************************************************************)
Max(S) == CHOOSE x \in S : \A y \in S : y <= x

\* String.prototype.startsWith
StartsWith(s, p) ==
    /\ Len(p) <= Len(s)
    /\ SubSeq(s, 1, Len(p)) = p

\* String.prototype.endsWith
EndsWith(s, p) ==
    /\ Len(p) <= Len(s)
    /\ SubSeq(s, Len(s) - Len(p) + 1, Len(s)) = p

\* String.prototype.includes
Includes(s, p) ==
    \E i \in 1..(Len(s) + 1) :
        /\ i + Len(p) - 1 <= Len(s)
        /\ SubSeq(s, i, i + Len(p) - 1) = p

DOT == <<".">>
DOTDOT == <<".", ".">>
SLASH == <<"/">>
BACKSLASH == <<"\\">>
HTML_EXT == <<".", "h", "t", "m", "l">>

(***************************************************************************)
(* Node's path module, POSIX flavour.                                      *)
(***************************************************************************)
\* path.basename(p): trailing separators are dropped, then the part after
\* the last remaining separator is kept; "" when p has no other character.
Basename(p) ==
    LET nonSep == {i \in 1..Len(p) : p[i] # "/"}
    IN  IF nonSep = {} THEN <<>>
        ELSE LET end == Max(nonSep)
                 start == Max({i \in 1..end : p[i] = "/"} \cup {0}) + 1
             IN  SubSeq(p, start, end)

\* The segments of p between separators (empty segments included).
RECURSIVE Split(_)
Split(p) ==
    LET seps == {i \in 1..Len(p) : p[i] = "/"}
    IN  IF seps = {} THEN <<p>>
        ELSE LET i == Max(seps)
             IN  Append(Split(SubSeq(p, 1, i - 1)), SubSeq(p, i + 1, Len(p)))

\* normalizeString: drops "" and ".", resolves ".." against the segment
\* before it; above the top, ".." is kept only when allowAboveRoot.
RECURSIVE NormalizeSegs(_, _)
NormalizeSegs(segs, allowAboveRoot) ==
    IF segs = <<>> THEN <<>>
    ELSE LET done == NormalizeSegs(SubSeq(segs, 1, Len(segs) - 1), allowAboveRoot)
             last == segs[Len(segs)]
         IN  IF last = <<>> \/ last = DOT THEN done
             ELSE IF last = DOTDOT
                  THEN IF done # <<>> /\ done[Len(done)] # DOTDOT
                       THEN SubSeq(done, 1, Len(done) - 1)
                       ELSE IF allowAboveRoot THEN Append(done, DOTDOT) ELSE done
                  ELSE Append(done, last)

\* Segments joined back with the separator.
RECURSIVE JoinSegs(_)
JoinSegs(segs) ==
    IF segs = <<>> THEN <<>>
    ELSE IF Len(segs) = 1 THEN segs[1]
    ELSE JoinSegs(SubSeq(segs, 1, Len(segs) - 1)) \o SLASH \o segs[Len(segs)]

IsAbsolute(p) == Len(p) > 0 /\ p[1] = "/"

\* path.normalize(p)
Normalize(p) ==
    IF p = <<>> THEN DOT
    ELSE LET abs == IsAbsolute(p)
             trailing == p[Len(p)] = "/"
             body == JoinSegs(NormalizeSegs(Split(p), ~abs))
         IN  IF body = <<>>
             THEN IF abs THEN SLASH ELSE IF trailing THEN <<".", "/">> ELSE DOT
             ELSE (IF abs THEN SLASH ELSE <<>>) \o body \o (IF trailing THEN SLASH ELSE <<>>)

\* path.join(a, b): the non-empty arguments joined by the separator, normalized.
Join(a, b) ==
    IF a = <<>> /\ b = <<>> THEN DOT
    ELSE IF a = <<>> THEN Normalize(b)
    ELSE IF b = <<>> THEN Normalize(a)
    ELSE Normalize(a \o SLASH \o b)

\* process.cwd(), the directory relative paths resolve against.
CWD == <<"/", "c">>

\* path.resolve(p): absolute, normalized, no trailing separator.
Resolve(p) ==
    LET full == IF IsAbsolute(p) THEN p
                ELSE IF p = <<>> THEN CWD ELSE CWD \o SLASH \o p
        body == JoinSegs(NormalizeSegs(Split(full), FALSE))
    IN  SLASH \o body

\* path.parse(base).name / .ext for a single path segment: the extension
\* starts at the last dot, unless that dot opens the segment or the segment
\* is "..".
ParseHasExt(base) ==
    LET dots == {i \in 1..Len(base) : base[i] = "."}
    IN  /\ dots # {}
        /\ Max(dots) # 1
        /\ base # DOTDOT

ParseName(base) ==
    IF ParseHasExt(base)
    THEN SubSeq(base, 1, Max({i \in 1..Len(base) : base[i] = "."}) - 1)
    ELSE base

ParseExt(base) ==
    IF ParseHasExt(base)
    THEN SubSeq(base, Max({i \in 1..Len(base) : base[i] = "."}), Len(base))
    ELSE <<>>

(***************************************************************************)
(* Security helpers of the secure variant.                                 *)
(***************************************************************************)
\* The characters the sanitizer keeps: [a-zA-Z0-9_\-\.]
SafeChars ==
    {"a", "b", "c", "d", "e", "f", "h", "l", "m", "t", "w", "x", "A", "Z",
     "0", "1", "2", "3", "4", "5", "6", "7", "8", "9", "_", "-", "."}

\* A variant without the g flag: only the first match is replaced.
ReplaceUnsafeFirst(s) ==
    LET unsafe == {i \in 1..Len(s) : s[i] \notin SafeChars}
    IN  [i \in 1..Len(s) |->
           IF i \in unsafe /\ (\A k \in unsafe : i <= k) THEN "_" ELSE s[i]]

\* .replace(/[^a-zA-Z0-9_\-\.]/g, '_')
ReplaceUnsafe(s) == [i \in 1..Len(s) |-> IF s[i] \in SafeChars THEN s[i] ELSE "_"]

sanitizeFilename(filename) == ReplaceUnsafe(Basename(filename))

validateFilePath(filePath, baseDir) ==
    LET resolved == Resolve(filePath)
        base == Resolve(baseDir)
    IN  StartsWith(resolved, base \o SLASH) \/ resolved = base

(***************************************************************************)
(* Encodings.                                                              *)
(***************************************************************************)
\* The value of a missing header, body field or parameter.
UNDEFINED == <<"undefined">>

HexDigits == <<"0", "1", "2", "3", "4", "5", "6", "7", "8", "9",
               "a", "b", "c", "d", "e", "f">>

\* Buffer.toString("hex"): two lowercase hex digits per byte.
RECURSIVE HexEncode(_)
HexEncode(bytes) ==
    IF bytes = <<>> THEN <<>>
    ELSE <<HexDigits[(bytes[1] \div 16) + 1], HexDigits[(bytes[1] % 16) + 1]>>
         \o HexEncode(Tail(bytes))

DecDigits == <<"0", "1", "2", "3", "4", "5", "6", "7", "8", "9">>

\* Number-to-string conversion of a template literal (decimal, no padding).
RECURSIVE DecimalString(_)
DecimalString(n) ==
    IF n < 10 THEN <<DecDigits[n + 1]>>
    ELSE DecimalString(n \div 10) \o <<DecDigits[(n % 10) + 1]>>

\* UTF-8 encoding of one UTF-16 code unit of a JavaScript string.  Code
\* units are written "a" (U+0061), "E9" (U+00E9) and "D800" (a lone
\* surrogate, which encodes as U+FFFD).
Utf8Unit(c) ==
    CASE c = "a" -> <<97>>
      [] c = "E9" -> <<195, 169>>
      [] c = "D800" -> <<239, 191, 189>>

\* The bytes fs.writeFile(path, text, "utf-8") puts on disk.
RECURSIVE Utf8(_)
Utf8(text) == IF text = <<>> THEN <<>> ELSE Utf8Unit(text[1]) \o Utf8(Tail(text))

\* The string fs.readFile(path, "utf-8") returns for the bytes on disk: an
\* undecodable byte becomes U+FFFD.
RECURSIVE Utf8Decode(_)
Utf8Decode(bytes) ==
    IF bytes = <<>> THEN <<>>
    ELSE IF bytes[1] = 97 THEN <<"a">> \o Utf8Decode(Tail(bytes))
    ELSE IF Len(bytes) >= 2 /\ bytes[1] = 195 /\ bytes[2] = 169
         THEN <<"E9">> \o Utf8Decode(SubSeq(bytes, 3, Len(bytes)))
    ELSE <<"D800">> \o Utf8Decode(Tail(bytes))

(***************************************************************************)
(* Configuration, read once at startup.                                    *)
(***************************************************************************)
\* The storage root (default: <dirname>/../public, absolute and normalized).
WEBSITE_DIR == <<"/", "w">>

\* The shared secret.
API_KEY == <<"k">>

\* multer's staging directory.
TMP_DIR == <<"/", "t", "m", "p">>

\* crypto.randomBytes(8)
RandomBytesLen == 8

(***************************************************************************)
(* Bounds of the model and the inputs drawn from them.                     *)
(***************************************************************************)
\* Requests received in one run.
MaxRequests == 2
\* Last value of the millisecond clock (it starts at 1).
MaxTime == 2

\* Request slots: one request at a time, or two in flight together.
Workers == {1, 2}
SeqWorkers == {1}

\* X-API-Key header values: the secret, another string, no header.
Keys == {API_KEY, <<"x">>, UNDEFINED}

\* body.html: missing, empty, one ASCII character, one two-byte character.
HtmlInputs == {UNDEFINED, <<>>, <<"a">>, <<"E9">>}

A_HTML == <<"a", ".", "h", "t", "m", "l">>
A_1 == <<"a", "-", "1">>
TRAVERSAL == <<".", ".", "/", "e">>

\* body.filename of Deploy: missing, plain, with the extension, a traversal
\* payload, a lone separator, a name shaped like a disambiguated one.
DeployNames == {UNDEFINED, <<"a">>, A_HTML, TRAVERSAL, SLASH, A_1}

\* :filename of Delete (never empty: the route does not match an empty
\* segment): deployed names, the directory itself, traversal payloads, a
\* name the sanitizer changes.
DeleteNames ==
    {A_HTML, A_1 \o HTML_EXT, <<"e">>, DOT, DOTDOT, TRAVERSAL,
     <<"a", "\\", "e">>, <<"a", " ">>}

\* The multipart file part of Upload: [originalname, htmlMime, bytes].
UploadFiles ==
    {[originalname |-> A_HTML, htmlMime |-> FALSE, bytes |-> <<97>>],
     [originalname |-> <<"a">>, htmlMime |-> TRUE, bytes |-> <<195, 169>>],
     [originalname |-> DOTDOT, htmlMime |-> TRUE, bytes |-> <<255>>],
     [originalname |-> <<"a", ".", "t">>, htmlMime |-> FALSE, bytes |-> <<97>>]}

\* body.filename of Upload.
UploadNames == {UNDEFINED, <<"a">>, TRAVERSAL}

\* The outcomes of crypto.randomBytes(8) the model draws from.
RandomOutcomes == {[i \in 1..RandomBytesLen |-> b] : b \in {10, 161}}

\* A file on disk outside the storage root.
OUTSIDE_FILE == <<"/", "e">>

\* Directories of the file system.
Dirs == {SLASH, WEBSITE_DIR, TMP_DIR}

\* What the disk holds when the server starts: nothing deployed yet, or a
\* file deployed by an earlier run.
InitStores ==
    {[p \in {OUTSIDE_FILE} |-> <<97>>],
     [p \in {OUTSIDE_FILE, Join(WEBSITE_DIR, A_HTML)} |-> <<97>>]}

VARIABLES
    store,      \* the regular files outside /tmp: path -> bytes
    tmp,        \* multer's staged files: path -> bytes
    now,        \* Date.now()
    started,    \* requests received so far
    req,        \* per worker: the request it serves, its locals, its response
    rt,         \* the round-trip client: its step and the responses it got
    helper      \* a direct call of a helper: its arguments and its result

vars == <<store, tmp, now, started, req, rt, helper>>

Blank ==
    [kind |-> "none", pc |-> "idle", key |-> UNDEFINED,
     filename |-> UNDEFINED, html |-> UNDEFINED,
     hasFile |-> FALSE, originalname |-> UNDEFINED, tmpPath |-> <<>>,
     finalFilename |-> <<>>, filePath |-> <<>>, renamed |-> FALSE,
     htmlContent |-> <<>>, pending |-> <<>>, fileList |-> <<>>,
     status |-> 0, respFilename |-> UNDEFINED, trace |-> <<>>,
     before |-> <<>>,
     url |-> UNDEFINED, upstream |-> [answers |-> FALSE, status |-> 0, body |-> <<>>],
     errorStatus |-> 0]

\* A fresh request record of the given kind; `before` keeps the files on
\* disk when the request arrived.
NewRequest(kind, key) ==
    [Blank EXCEPT !.kind = kind, !.key = key, !.before = store]

\* JavaScript truthiness of an optional string.
Truthy(v) == v # UNDEFINED /\ v # <<>>

\* The request record after one more file-system call.
Call(r, op, path) == [r EXCEPT !.trace = Append(@, <<op, path>>)]

\* The request record after the path guard was called on a path.
Guarded(r, path) == Call(r, "validateFilePath", path)

\* The request record once the response is sent.
Respond(r, status) == [r EXCEPT !.pc = "done", !.status = status]

\* fs.access(path) succeeds.
Exists(files, path) == path \in files \/ path \in Dirs

\* The function f with x removed from its domain.
Remove(f, x) == [y \in DOMAIN f \ {x} |-> f[y]]

\* The function f with x mapped to v.
Put(f, x, v) == [y \in DOMAIN f \cup {x} |-> IF y = x THEN v ELSE f[y]]

\* A variant that opens the file for appending (flag "a").
WriteFileAppend(files, path, bytes, outcome) ==
    CASE outcome = "ok" ->
           Put(files, path, (IF path \in DOMAIN files THEN files[path] ELSE <<>>) \o bytes)
      [] outcome = "truncated" -> Put(files, path, <<>>)
      [] outcome = "failed" -> files

\* fs.writeFile(path, bytes): the file holds exactly the bytes; a failed
\* write leaves the file as it was or truncated.
WriteFile(files, path, bytes, outcome) ==
    CASE outcome = "ok" -> Put(files, path, bytes)
      [] outcome = "truncated" -> Put(files, path, <<>>)
      [] outcome = "failed" -> files

WriteOutcomes == {"ok", "truncated", "failed"}

\* A variant that only asks for the header to be present.
authenticatePresent(key) == key # UNDEFINED

authenticate(key) == key = API_KEY

ensureWebsiteDir(r) == Call(r, "access", WEBSITE_DIR)

\* A worker is free and the run may receive one more request.
CanStart(w) ==
    /\ req[w].pc \in {"idle", "done"}
    /\ started < MaxRequests
    /\ rt.step = 0

(***************************************************************************)
(* POST /api/deploy                                                        *)
(***************************************************************************)
\* A variant with the naming of the plain service (src/src/index.ts): the
\* supplied name is used as it is, without existence check or path guard.
DeployPlanPlain(filename, token, files, timestamp) ==
    LET final == IF Truthy(filename)
                 THEN IF EndsWith(filename, HTML_EXT) THEN filename
                      ELSE filename \o HTML_EXT
                 ELSE token \o HTML_EXT
        path == Join(WEBSITE_DIR, final)
    IN  [probe |-> path, finalFilename |-> final, filePath |-> path,
         renamed |-> FALSE, allowed |-> TRUE]

\* A variant that probes the store for supplied names only and keeps a
\* generated name as it is.
DeployPlanTokenUnchecked(filename, token, files, timestamp) ==
    LET first == IF Truthy(filename)
                 THEN LET safe == sanitizeFilename(filename)
                      IN  IF EndsWith(safe, HTML_EXT) THEN safe ELSE safe \o HTML_EXT
                 ELSE token \o HTML_EXT
        probe == Join(WEBSITE_DIR, first)
        taken == Truthy(filename) /\ Exists(files, probe)
        final == IF taken
                 THEN ParseName(first) \o <<"-">> \o DecimalString(timestamp) \o ParseExt(first)
                 ELSE first
        path == Join(WEBSITE_DIR, final)
    IN  [probe |-> probe, finalFilename |-> final, filePath |-> path,
         renamed |-> taken, allowed |-> validateFilePath(path, WEBSITE_DIR)]

\* Name generation, existence check, disambiguation and path guard.
\* files: the paths that exist when fs.access runs; timestamp: Date.now().
DeployPlan(filename, token, files, timestamp) ==
    LET first == IF Truthy(filename)
                 THEN LET safe == sanitizeFilename(filename)
                      IN  IF EndsWith(safe, HTML_EXT) THEN safe ELSE safe \o HTML_EXT
                 ELSE token \o HTML_EXT
        probe == Join(WEBSITE_DIR, first)
        taken == Exists(files, probe)
        final == IF taken
                 THEN ParseName(first) \o <<"-">> \o DecimalString(timestamp) \o ParseExt(first)
                 ELSE first
        path == Join(WEBSITE_DIR, final)
    IN  [probe |-> probe, finalFilename |-> final, filePath |-> path,
         renamed |-> taken, allowed |-> validateFilePath(path, WEBSITE_DIR)]

\* The request arrives: authenticate, ensureWebsiteDir, body validation.
\* The body is read only once the key has been accepted.
DeployStart(w, key, filename, html) ==
    LET r0 == NewRequest("deploy", key)
        r1 == [ensureWebsiteDir(r0) EXCEPT !.filename = filename, !.html = html]
    IN  req' = [req EXCEPT ![w] =
                  IF ~authenticate(key) THEN Respond(r0, 401)
                  ELSE IF ~Truthy(html) THEN Respond(r1, 400)
                  ELSE [r1 EXCEPT !.pc = "deployAccess"]]

DeployBegin(w) ==
    /\ CanStart(w)
    /\ \E key \in Keys :
         \E filename \in IF authenticate(key) THEN DeployNames ELSE {UNDEFINED} :
           \E html \in IF authenticate(key) THEN HtmlInputs ELSE {UNDEFINED} :
             DeployStart(w, key, filename, html)
    /\ started' = started + 1
    /\ UNCHANGED <<store, tmp, now, rt, helper>>

\* fs.access(filePath) completes; the handler runs on to the path guard.
DeployAccess(w) ==
    /\ req[w].pc = "deployAccess"
    /\ \E bytes \in RandomOutcomes :
         LET r == req[w]
             plan == DeployPlan(r.filename, HexEncode(bytes), DOMAIN store, now)
             r1 == [Guarded(Call(r, "access", plan.probe), plan.filePath) EXCEPT
                       !.finalFilename = plan.finalFilename,
                       !.filePath = plan.filePath,
                       !.renamed = plan.renamed]
         IN  req' = [req EXCEPT ![w] =
                       IF plan.allowed THEN [r1 EXCEPT !.pc = "deployWrite"]
                       ELSE Respond(r1, 403)]
    /\ UNCHANGED <<store, tmp, now, started, rt, helper>>

\* fs.writeFile(filePath, html, "utf-8") completes; the response is sent.
DeployWrite(w) ==
    /\ req[w].pc = "deployWrite"
    /\ \E outcome \in WriteOutcomes :
         LET r == Call(req[w], "writeFile", req[w].filePath)
         IN  /\ store' = WriteFile(store, r.filePath, Utf8(r.html), outcome)
             /\ req' = [req EXCEPT ![w] =
                          IF outcome = "ok"
                          THEN [Respond(r, 200) EXCEPT !.respFilename = r.finalFilename]
                          ELSE Respond(r, 500)]
    /\ UNCHANGED <<tmp, now, started, rt, helper>>

(***************************************************************************)
(* POST /api/upload                                                        *)
(***************************************************************************)
\* multer's fileFilter: only HTML files are staged.
fileFilter(file) == file.htmlMime \/ EndsWith(file.originalname, HTML_EXT)

\* The path multer stages the upload of worker w at (a fresh random name
\* under /tmp/ in the code).
TmpPath(w) == TMP_DIR \o SLASH \o DecimalString(w)

\* Name choice, existence check, disambiguation and path guard.
UploadPlan(customFilename, originalname, files, timestamp) ==
    LET first == IF Truthy(customFilename)
                 THEN LET safe == sanitizeFilename(customFilename)
                      IN  IF EndsWith(safe, HTML_EXT) THEN safe ELSE safe \o HTML_EXT
                 ELSE LET safe == sanitizeFilename(originalname)
                      IN  IF EndsWith(safe, HTML_EXT) THEN safe
                          ELSE ParseName(safe) \o HTML_EXT
        probe == Join(WEBSITE_DIR, first)
        taken == Exists(files, probe)
        final == IF taken
                 THEN ParseName(first) \o <<"-">> \o DecimalString(timestamp) \o ParseExt(first)
                 ELSE first
        path == Join(WEBSITE_DIR, final)
    IN  [probe |-> probe, finalFilename |-> final, filePath |-> path,
         renamed |-> taken, allowed |-> validateFilePath(path, WEBSITE_DIR)]

\* The request arrives: authenticate, then multer (a rejected file part
\* ends the request in the framework's error handler, nothing staged),
\* then the handler up to its first read.
UploadStart(w, key, hasFile, file, customFilename) ==
    LET r0 == NewRequest("upload", key)
        r1 == [r0 EXCEPT !.hasFile = hasFile,
                         !.originalname = IF hasFile THEN file.originalname ELSE UNDEFINED,
                         !.filename = customFilename]
        staged == hasFile /\ fileFilter(file)
    IN  IF ~authenticate(key)
        THEN /\ req' = [req EXCEPT ![w] = Respond(r0, 401)]
             /\ tmp' = tmp
        ELSE IF hasFile /\ ~fileFilter(file)
        THEN /\ req' = [req EXCEPT ![w] = Respond(r1, 500)]
             /\ tmp' = tmp
        ELSE IF ~hasFile
        THEN /\ req' = [req EXCEPT ![w] = Respond(ensureWebsiteDir(r1), 400)]
             /\ tmp' = tmp
        ELSE /\ req' = [req EXCEPT ![w] =
                          [ensureWebsiteDir(r1) EXCEPT !.pc = "uploadRead",
                                                       !.tmpPath = TmpPath(w)]]
             /\ tmp' = Put(tmp, TmpPath(w), file.bytes)

UploadBegin(w) ==
    /\ CanStart(w)
    /\ \E key \in Keys :
         \E hasFile \in IF authenticate(key) THEN BOOLEAN ELSE {FALSE} :
           \E file \in IF hasFile THEN UploadFiles
                       ELSE {[originalname |-> UNDEFINED, htmlMime |-> FALSE, bytes |-> <<>>]} :
             \E customFilename \in IF hasFile /\ fileFilter(file) THEN UploadNames
                                   ELSE {UNDEFINED} :
               UploadStart(w, key, hasFile, file, customFilename)
    /\ started' = started + 1
    /\ UNCHANGED <<store, now, rt, helper>>

\* fs.readFile(req.file.path, "utf-8") completes; on failure the catch
\* block removes the staged file and answers 500.
UploadRead(w) ==
    /\ req[w].pc = "uploadRead"
    /\ \E ok \in BOOLEAN :
         LET r == Call(req[w], "readFile", req[w].tmpPath)
         IN  IF ok
             THEN /\ req' = [req EXCEPT ![w] =
                               [r EXCEPT !.pc = "uploadAccess",
                                         !.htmlContent = Utf8Decode(tmp[r.tmpPath])]]
                  /\ tmp' = tmp
             ELSE /\ req' = [req EXCEPT ![w] = Respond(Call(r, "unlink", r.tmpPath), 500)]
                  /\ tmp' = Remove(tmp, r.tmpPath)
    /\ UNCHANGED <<store, now, started, rt, helper>>

\* fs.access(filePath) completes; the handler runs on to the path guard,
\* which removes the staged file before it answers 403.
UploadAccess(w) ==
    /\ req[w].pc = "uploadAccess"
    /\ LET r == req[w]
           plan == UploadPlan(r.filename, r.originalname, DOMAIN store, now)
           r1 == [Guarded(Call(r, "access", plan.probe), plan.filePath) EXCEPT
                     !.finalFilename = plan.finalFilename,
                     !.filePath = plan.filePath,
                     !.renamed = plan.renamed]
       IN  IF plan.allowed
           THEN /\ req' = [req EXCEPT ![w] = [r1 EXCEPT !.pc = "uploadWrite"]]
                /\ tmp' = tmp
           ELSE /\ req' = [req EXCEPT ![w] = Respond(Call(r1, "unlink", r.tmpPath), 403)]
                /\ tmp' = Remove(tmp, r.tmpPath)
    /\ UNCHANGED <<store, now, started, rt, helper>>

\* fs.writeFile(filePath, htmlContent, "utf-8") completes, then the staged
\* file is removed (a file no other request touches) and the response sent.
UploadWrite(w) ==
    /\ req[w].pc = "uploadWrite"
    /\ \E outcome \in WriteOutcomes :
         LET r == Call(Call(req[w], "writeFile", req[w].filePath), "unlink", req[w].tmpPath)
         IN  /\ store' = WriteFile(store, r.filePath, Utf8(r.htmlContent), outcome)
             /\ tmp' = Remove(tmp, r.tmpPath)
             /\ req' = [req EXCEPT ![w] =
                          IF outcome = "ok"
                          THEN [Respond(r, 200) EXCEPT !.respFilename = r.finalFilename]
                          ELSE Respond(r, 500)]
    /\ UNCHANGED <<now, started, rt, helper>>

(***************************************************************************)
(* GET /api/list                                                           *)
(***************************************************************************)
\* fs.readdir(dir): the names of the entries directly under dir.
Readdir(files, dir) ==
    {SubSeq(p, Len(dir) + 2, Len(p)) :
        p \in {q \in files : /\ StartsWith(q, dir \o SLASH)
                             /\ ~Includes(SubSeq(q, Len(dir) + 2, Len(q)), SLASH)}}

\* The entries of a directory in the order the file system returns them.
RECURSIVE DirOrder(_)
DirOrder(names) ==
    IF names = {} THEN <<>>
    ELSE LET n == CHOOSE x \in names : TRUE
         IN  <<n>> \o DirOrder(names \ {n})

\* files.filter(f => f.endsWith('.html'))
htmlFiles(names) == SelectSeq(names, LAMBDA f : EndsWith(f, HTML_EXT))

\* A variant that counts the characters of the text where stats.size counts
\* the bytes on disk.
StatSizeChars(bytes) == Len(Utf8Decode(bytes))

\* stats.size
StatSize(bytes) == Len(bytes)

\* The request arrives (no key needed): ensureWebsiteDir and fs.readdir;
\* an empty listing is answered at once.
ListStart(w, key) ==
    LET r0 == NewRequest("list", key)
        r1 == Call(ensureWebsiteDir(r0), "readdir", WEBSITE_DIR)
        names == htmlFiles(DirOrder(Readdir(DOMAIN store, WEBSITE_DIR)))
    IN  req' = [req EXCEPT ![w] =
                  IF names = <<>> THEN Respond(r1, 200)
                  ELSE [r1 EXCEPT !.pc = "listStat", !.pending = names]]

ListBegin(w) ==
    /\ CanStart(w)
    /\ \E key \in Keys : ListStart(w, key)
    /\ started' = started + 1
    /\ UNCHANGED <<store, tmp, now, rt, helper>>

\* One fs.stat of the Promise.all completes: a missing file rejects the
\* whole listing (500); the last one sends the response.
ListStat(w) ==
    /\ req[w].pc = "listStat"
    /\ LET file == Head(req[w].pending)
           filePath == Join(WEBSITE_DIR, file)
           r == Call(req[w], "stat", filePath)
       IN  req' = [req EXCEPT ![w] =
                     IF filePath \notin DOMAIN store THEN Respond(r, 500)
                     ELSE LET r1 == [r EXCEPT
                                       !.pending = Tail(@),
                                       !.fileList = Append(@, [filename |-> file,
                                                               size |-> StatSize(store[filePath])])]
                          IN  IF r1.pending = <<>> THEN Respond(r1, 200) ELSE r1]
    /\ UNCHANGED <<store, tmp, now, started, rt, helper>>

(***************************************************************************)
(* DELETE /api/delete/:filename                                            *)
(***************************************************************************)
\* A variant that relies on the sanitizer round trip alone.
DeletePlanRoundTripOnly(filename) ==
    LET safeFilename == sanitizeFilename(filename)
        filePath == Join(WEBSITE_DIR, safeFilename)
    IN  [filePath |-> filePath,
         status |-> IF safeFilename # filename THEN 400
                    ELSE IF ~validateFilePath(filePath, WEBSITE_DIR) THEN 403
                    ELSE 0]

\* Name validation and path guard: the status to answer with (0: go on).
DeletePlan(filename) ==
    LET safeFilename == sanitizeFilename(filename)
        filePath == Join(WEBSITE_DIR, safeFilename)
    IN  [filePath |-> filePath,
         status |-> IF \/ safeFilename # filename
                       \/ Includes(filename, DOTDOT)
                       \/ Includes(filename, SLASH)
                       \/ Includes(filename, BACKSLASH)
                    THEN 400
                    ELSE IF ~validateFilePath(filePath, WEBSITE_DIR) THEN 403
                    ELSE 0]

\* The request arrives: authenticate, name validation, path guard.
DeleteStart(w, key, filename) ==
    LET r0 == NewRequest("delete", key)
        r1 == [r0 EXCEPT !.filename = filename]
        plan == DeletePlan(filename)
    IN  req' = [req EXCEPT ![w] =
                  IF ~authenticate(key) THEN Respond(r0, 401)
                  ELSE IF plan.status = 400 THEN Respond(r1, 400)
                  ELSE IF plan.status # 0
                  THEN Respond(Guarded(r1, plan.filePath), plan.status)
                  ELSE [Guarded(r1, plan.filePath) EXCEPT
                           !.pc = "deleteAccess", !.filePath = plan.filePath]]

DeleteBegin(w) ==
    /\ CanStart(w)
    /\ \E key \in Keys :
         \E filename \in IF authenticate(key) THEN DeleteNames ELSE {UNDEFINED} :
           DeleteStart(w, key, filename)
    /\ started' = started + 1
    /\ UNCHANGED <<store, tmp, now, rt, helper>>

\* A variant of the catch block that answers every error 500.
DeleteErrorStatusAlways500(path) == 500

\* The catch block of Delete: ENOENT (no file at the path) is answered
\* 404, every other error (a directory at the path) 500.
DeleteErrorStatus(path) == IF path \in Dirs THEN 500 ELSE 404

\* fs.access(filePath) completes: ENOENT is answered 404.
DeleteAccess(w) ==
    /\ req[w].pc = "deleteAccess"
    /\ LET r == Call(req[w], "access", req[w].filePath)
       IN  req' = [req EXCEPT ![w] =
                     IF Exists(DOMAIN store, r.filePath)
                     THEN [r EXCEPT !.pc = "deleteUnlink"]
                     ELSE Respond(r, DeleteErrorStatus(r.filePath))]
    /\ UNCHANGED <<store, tmp, now, started, rt, helper>>

\* fs.unlink(filePath) completes: ENOENT is answered 404, a directory
\* (EISDIR / EPERM) 500.
DeleteUnlink(w) ==
    /\ req[w].pc = "deleteUnlink"
    /\ LET r == Call(req[w], "unlink", req[w].filePath)
       IN  IF r.filePath \in DOMAIN store
           THEN /\ store' = Remove(store, r.filePath)
                /\ req' = [req EXCEPT ![w] = Respond(r, 200)]
           ELSE /\ store' = store
                /\ req' = [req EXCEPT ![w] = Respond(r, DeleteErrorStatus(r.filePath))]
    /\ UNCHANGED <<tmp, now, started, rt, helper>>

(***************************************************************************)
(* GET /health                                                             *)
(***************************************************************************)
HEALTH_FILE == Join(WEBSITE_DIR, <<".", "h", "e", "a", "l", "t", "h", "-", "c", "h", "e", "c", "k">>)

\* The request arrives (no key needed) and the probe write is issued.
HealthStart(w, key) ==
    req' = [req EXCEPT ![w] = [NewRequest("health", key) EXCEPT
                                  !.pc = "healthWrite", !.filePath = HEALTH_FILE]]

HealthBegin(w) ==
    /\ CanStart(w)
    /\ \E key \in Keys : HealthStart(w, key)
    /\ started' = started + 1
    /\ UNCHANGED <<store, tmp, now, rt, helper>>

\* fs.writeFile(testFile, 'ok') completes; a failure is answered 503.
HealthWrite(w) ==
    /\ req[w].pc = "healthWrite"
    /\ \E outcome \in WriteOutcomes :
         LET r == Call(req[w], "writeFile", req[w].filePath)
         IN  /\ store' = WriteFile(store, r.filePath, <<111, 107>>, outcome)
             /\ req' = [req EXCEPT ![w] =
                          IF outcome = "ok" THEN [r EXCEPT !.pc = "healthUnlink"]
                          ELSE Respond(r, 503)]
    /\ UNCHANGED <<tmp, now, started, rt, helper>>

\* fs.unlink(testFile) completes; ENOENT is answered 503.
HealthUnlink(w) ==
    /\ req[w].pc = "healthUnlink"
    /\ LET r == Call(req[w], "unlink", req[w].filePath)
       IN  IF r.filePath \in DOMAIN store
           THEN /\ store' = Remove(store, r.filePath)
                /\ req' = [req EXCEPT ![w] = Respond(r, 200)]
           ELSE /\ store' = store
                /\ req' = [req EXCEPT ![w] = Respond(r, 503)]
    /\ UNCHANGED <<tmp, now, started, rt, helper>>

(***************************************************************************)
(* The variants without key, sanitizer and path guard: src/src/index.ts    *)
(* (Deploy also takes a url), and src/simple-api.js.                       *)
(***************************************************************************)
\* The first index at which pat occurs in s, 0 if it does not.
IndexOf(s, pat) ==
    LET hits == {i \in 1..(Len(s) - Len(pat) + 1) : SubSeq(s, i, i + Len(pat) - 1) = pat}
    IN  IF hits = {} THEN 0 ELSE CHOOSE i \in hits : \A k \in hits : i <= k

\* String.prototype.replace with a string pattern: the first occurrence.
ReplaceFirst(s, pat, by) ==
    LET i == IndexOf(s, pat)
    IN  IF i = 0 THEN s
        ELSE SubSeq(s, 1, i - 1) \o by \o SubSeq(s, i + Len(pat), Len(s))

SCHEME_SEP == <<":", "/", "/">>

\* new URL(url) succeeds (fetch rejects a string that is not a URL).
IsValidUrl(url) == Truthy(url) /\ IndexOf(url, SCHEME_SEP) > 1

\* The first index of s at or after `from` that holds one of the
\* characters, Len(s) + 1 if none does.
FirstOf(s, chars, from) ==
    LET hits == {i \in from..Len(s) : s[i] \in chars}
    IN  IF hits = {} THEN Len(s) + 1 ELSE CHOOSE i \in hits : \A k \in hits : i <= k

\* new URL(url).pathname of a URL without dot segments or escapes: from
\* the first "/" after the authority up to the query or the fragment.
Pathname(url) ==
    LET start == IndexOf(url, SCHEME_SEP) + Len(SCHEME_SEP)
        slash == FirstOf(url, {"/", "?", "#"}, start)
        stop == FirstOf(url, {"?", "#"}, start)
    IN  IF slash > Len(url) \/ url[slash] # "/" THEN SLASH
        ELSE SubSeq(url, slash, stop - 1)

\* The name index.ts derives from the url when the body names none.
UrlFilename(url) ==
    LET urlFilename == Basename(Pathname(url))
    IN  IF Truthy(urlFilename) /\ EndsWith(urlFilename, HTML_EXT)
        THEN ReplaceFirst(urlFilename, HTML_EXT, <<>>)
        ELSE UNDEFINED

URL_BASE == <<"h", ":", "/", "/", "h">>
PAGE == <<"/", "p">>

\* body.url: missing, ending in /p.html, in /p, with a query, not a URL.
Urls ==
    {UNDEFINED,
     URL_BASE \o PAGE \o HTML_EXT,
     URL_BASE \o PAGE,
     URL_BASE \o PAGE \o HTML_EXT \o <<"?", "q">>,
     <<"p">>}

\* What the remote server does: it answers with a status and a body, the
\* connection fails (status 0), or it never answers.
Upstreams ==
    {[answers |-> TRUE, status |-> 200, body |-> <<"a">>],
     [answers |-> TRUE, status |-> 200, body |-> <<>>],
     [answers |-> TRUE, status |-> 404, body |-> <<"a">>],
     [answers |-> TRUE, status |-> 0, body |-> <<>>],
     [answers |-> FALSE, status |-> 0, body |-> <<>>]}

\* body.filename of the Deploy of index.ts.
PlainDeployNames == {UNDEFINED, <<"a">>, TRAVERSAL}

\* Name generation of index.ts and simple-api.js: the name as supplied.
PlainDeployName(filename, token) ==
    IF Truthy(filename) THEN filename \o HTML_EXT ELSE token \o HTML_EXT

\* The handler from the html check to the call of fs.writeFile; filename
\* is the local variable, which the url branch may have assigned.
PlainDeployValidate(r, filename, token) ==
    IF ~Truthy(r.html) THEN Respond(r, 400)
    ELSE LET finalFilename == PlainDeployName(filename, token)
         IN  [r EXCEPT !.finalFilename = finalFilename,
                       !.filePath = Join(WEBSITE_DIR, finalFilename),
                       !.pc = "plainDeployWrite"]

\* The request arrives: ensureWebsiteDir, then either the fetch of the url
\* is started or the handler runs on to the write.
PlainDeployStart(w, html, filename, url, upstream, token) ==
    LET r0 == NewRequest("plainDeploy", UNDEFINED)
        r1 == [ensureWebsiteDir(r0) EXCEPT !.html = html, !.filename = filename,
                                           !.url = url]
    IN  req' = [req EXCEPT ![w] =
                  IF Truthy(url) /\ ~Truthy(html)
                  THEN IF IsValidUrl(url)
                       THEN [r1 EXCEPT !.pc = "plainFetch", !.upstream = upstream]
                       ELSE Respond(r1, 400)
                  ELSE PlainDeployValidate(r1, filename, token)]

PlainDeployBegin(w) ==
    /\ CanStart(w)
    /\ \E html \in HtmlInputs, filename \in PlainDeployNames, url \in Urls :
         \E upstream \in IF IsValidUrl(url) /\ ~Truthy(html) THEN Upstreams
                         ELSE {Blank.upstream} :
           \E bytes \in RandomOutcomes :
             PlainDeployStart(w, html, filename, url, upstream, HexEncode(bytes))
    /\ started' = started + 1
    /\ UNCHANGED <<store, tmp, now, rt, helper>>

\* await fetch(url) completes: the remote server has answered or the
\* connection has failed. No timeout is passed to fetch, so the await
\* completes only if one of the two happens.
PlainFetch(w) ==
    /\ req[w].pc = "plainFetch"
    /\ req[w].upstream.answers
    /\ LET r == req[w]
           ok == r.upstream.status \in 200..299
       IN  req' = [req EXCEPT ![w] =
                     IF r.upstream.status = 0 THEN Respond(r, 400)
                     ELSE IF ~ok
                     THEN [Respond(r, 400) EXCEPT !.errorStatus = r.upstream.status]
                     ELSE [r EXCEPT !.pc = "plainText"]]
    /\ UNCHANGED <<store, tmp, now, started, rt, helper>>

\* await response.text() completes; the name is derived from the url when
\* the body names none, and the handler runs on to the write.
PlainText(w) ==
    /\ req[w].pc = "plainText"
    /\ \E bytes \in RandomOutcomes :
         LET r == req[w]
             r1 == [r EXCEPT !.html = r.upstream.body]
             filename == IF Truthy(r.filename) THEN r.filename ELSE UrlFilename(r.url)
         IN  req' = [req EXCEPT ![w] = PlainDeployValidate(r1, filename, HexEncode(bytes))]
    /\ UNCHANGED <<store, tmp, now, started, rt, helper>>

\* fs.writeFile(filePath, html, "utf-8") completes; the response is sent.
PlainDeployWrite(w) ==
    /\ req[w].pc = "plainDeployWrite"
    /\ \E outcome \in WriteOutcomes :
         LET r == Call(req[w], "writeFile", req[w].filePath)
         IN  /\ store' = WriteFile(store, r.filePath, Utf8(r.html), outcome)
             /\ req' = [req EXCEPT ![w] =
                          IF outcome = "ok"
                          THEN [Respond(r, 200) EXCEPT !.respFilename = r.finalFilename]
                          ELSE Respond(r, 500)]
    /\ UNCHANGED <<tmp, now, started, rt, helper>>

\* multer's fileFilter in index.ts: the name alone decides.
plainFileFilter(file) == EndsWith(file.originalname, HTML_EXT)

\* Name choice of the Upload of index.ts: the name as supplied.
PlainUploadName(customFilename, originalname) ==
    IF Truthy(customFilename)
    THEN IF EndsWith(customFilename, HTML_EXT) THEN customFilename
         ELSE customFilename \o HTML_EXT
    ELSE IF EndsWith(originalname, HTML_EXT) THEN originalname
         ELSE ParseName(originalname) \o HTML_EXT

\* The request arrives: multer stages the file part (a rejected part ends
\* the request in the framework's error handler), then the handler runs up
\* to its first read.
PlainUploadStart(w, hasFile, file, customFilename) ==
    LET r0 == NewRequest("plainUpload", UNDEFINED)
        r1 == [r0 EXCEPT !.hasFile = hasFile,
                         !.originalname = IF hasFile THEN file.originalname ELSE UNDEFINED,
                         !.filename = customFilename]
    IN  IF hasFile /\ ~plainFileFilter(file)
        THEN /\ req' = [req EXCEPT ![w] = Respond(r1, 500)]
             /\ tmp' = tmp
        ELSE IF ~hasFile
        THEN /\ req' = [req EXCEPT ![w] = Respond(ensureWebsiteDir(r1), 400)]
             /\ tmp' = tmp
        ELSE /\ req' = [req EXCEPT ![w] =
                          [ensureWebsiteDir(r1) EXCEPT !.pc = "plainUploadRead",
                                                       !.tmpPath = TmpPath(w)]]
             /\ tmp' = Put(tmp, TmpPath(w), file.bytes)

PlainUploadBegin(w) ==
    /\ CanStart(w)
    /\ \E hasFile \in BOOLEAN :
         \E file \in IF hasFile THEN UploadFiles
                     ELSE {[originalname |-> UNDEFINED, htmlMime |-> FALSE, bytes |-> <<>>]} :
           \E customFilename \in IF hasFile /\ plainFileFilter(file) THEN UploadNames
                                 ELSE {UNDEFINED} :
             PlainUploadStart(w, hasFile, file, customFilename)
    /\ started' = started + 1
    /\ UNCHANGED <<store, now, rt, helper>>

\* fs.readFile(req.file.path, "utf-8") completes; the handler runs on to
\* the write. On failure the catch block answers 500.
PlainUploadRead(w) ==
    /\ req[w].pc = "plainUploadRead"
    /\ \E ok \in BOOLEAN :
         LET r == Call(req[w], "readFile", req[w].tmpPath)
             finalFilename == PlainUploadName(r.filename, r.originalname)
         IN  req' = [req EXCEPT ![w] =
                       IF ok
                       THEN [r EXCEPT !.pc = "plainUploadWrite",
                                      !.htmlContent = Utf8Decode(tmp[r.tmpPath]),
                                      !.finalFilename = finalFilename,
                                      !.filePath = Join(WEBSITE_DIR, finalFilename)]
                       ELSE Respond(r, 500)]
    /\ UNCHANGED <<store, tmp, now, started, rt, helper>>

\* fs.writeFile(filePath, htmlContent, "utf-8") completes. On success the
\* staged file is removed (a failure of that removal is swallowed) and the
\* response sent; on failure the catch block answers 500.
PlainUploadWrite(w) ==
    /\ req[w].pc = "plainUploadWrite"
    /\ \E outcome \in WriteOutcomes, unlinked \in BOOLEAN :
         LET r == Call(req[w], "writeFile", req[w].filePath)
         IN  /\ store' = WriteFile(store, r.filePath, Utf8(r.htmlContent), outcome)
             /\ IF outcome = "ok"
                THEN /\ tmp' = IF unlinked THEN Remove(tmp, r.tmpPath) ELSE tmp
                     /\ req' = [req EXCEPT ![w] =
                                  [Respond(Call(r, "unlink", r.tmpPath), 200) EXCEPT
                                      !.respFilename = r.finalFilename]]
                ELSE /\ tmp' = tmp
                     /\ req' = [req EXCEPT ![w] = Respond(r, 500)]
    /\ UNCHANGED <<now, started, rt, helper>>

\* :filename of the Delete routes, percent-decoded by the router.
PlainDeleteNames == {A_HTML, <<"e">>, DOT, TRAVERSAL}

\* DELETE /api/delete/:filename of index.ts arrives.
PlainDeleteStart(w, filename) ==
    req' = [req EXCEPT ![w] =
              [NewRequest("plainDelete", UNDEFINED) EXCEPT
                  !.filename = filename,
                  !.filePath = Join(WEBSITE_DIR, filename),
                  !.pc = "plainDeleteAccess"]]

PlainDeleteBegin(w) ==
    /\ CanStart(w)
    /\ \E filename \in PlainDeleteNames : PlainDeleteStart(w, filename)
    /\ started' = started + 1
    /\ UNCHANGED <<store, tmp, now, rt, helper>>

\* fs.access(filePath) completes: every error is answered 404.
PlainDeleteAccess(w) ==
    /\ req[w].pc = "plainDeleteAccess"
    /\ LET r == Call(req[w], "access", req[w].filePath)
       IN  req' = [req EXCEPT ![w] =
                     IF Exists(DOMAIN store, r.filePath)
                     THEN [r EXCEPT !.pc = "plainDeleteUnlink"]
                     ELSE Respond(r, 404)]
    /\ UNCHANGED <<store, tmp, now, started, rt, helper>>

\* fs.unlink(filePath) completes: every error is answered 404.
PlainDeleteUnlink(w) ==
    /\ req[w].pc = "plainDeleteUnlink"
    /\ LET r == Call(req[w], "unlink", req[w].filePath)
       IN  IF r.filePath \in DOMAIN store
           THEN /\ store' = Remove(store, r.filePath)
                /\ req' = [req EXCEPT ![w] = Respond(r, 200)]
           ELSE /\ store' = store
                /\ req' = [req EXCEPT ![w] = Respond(r, 404)]
    /\ UNCHANGED <<tmp, now, started, rt, helper>>

\* DELETE /delete/:filename of simple-api.js arrives.
SimpleDeleteStart(w, filename) ==
    req' = [req EXCEPT ![w] =
              [NewRequest("simpleDelete", UNDEFINED) EXCEPT
                  !.filename = filename,
                  !.filePath = Join(WEBSITE_DIR, filename),
                  !.pc = "simpleDeleteUnlink"]]

SimpleDeleteBegin(w) ==
    /\ CanStart(w)
    /\ \E filename \in PlainDeleteNames : SimpleDeleteStart(w, filename)
    /\ started' = started + 1
    /\ UNCHANGED <<store, tmp, now, rt, helper>>

\* fs.unlink(filePath) completes: every error is answered 500.
SimpleDeleteUnlink(w) ==
    /\ req[w].pc = "simpleDeleteUnlink"
    /\ LET r == Call(req[w], "unlink", req[w].filePath)
       IN  IF r.filePath \in DOMAIN store
           THEN /\ store' = Remove(store, r.filePath)
                /\ req' = [req EXCEPT ![w] = Respond(r, 200)]
           ELSE /\ store' = store
                /\ req' = [req EXCEPT ![w] = Respond(r, 500)]
    /\ UNCHANGED <<tmp, now, started, rt, helper>>

\* The millisecond clock advances.
Tick ==
    /\ now < MaxTime
    /\ now' = now + 1
    /\ UNCHANGED <<store, tmp, started, req, rt, helper>>

(***************************************************************************)
(* A client that deploys without a name, lists, deletes the name it got    *)
(* and lists again, each request sent once the previous one is answered.   *)
(***************************************************************************)
RtIdle == [step |-> 0, N |-> UNDEFINED, C |-> UNDEFINED, replies |-> <<>>]

\* What the client keeps of a response.
Reply(r) == [status |-> r.status, files |-> r.fileList]

RtDeploy(w) ==
    /\ rt.step = 0
    /\ req[w].pc \in {"idle", "done"}
    /\ \E C \in {h \in HtmlInputs : Truthy(h)} :
         /\ DeployStart(w, API_KEY, UNDEFINED, C)
         /\ rt' = [rt EXCEPT !.step = 1, !.C = C]
    /\ UNCHANGED <<store, tmp, now, started, helper>>

RtList(w) ==
    /\ rt.step = 1
    /\ req[w].pc = "done"
    /\ req[w].status = 200
    /\ ListStart(w, UNDEFINED)
    /\ rt' = [rt EXCEPT !.step = 2, !.N = req[w].respFilename]
    /\ UNCHANGED <<store, tmp, now, started, helper>>

RtDelete(w) ==
    /\ rt.step = 2
    /\ req[w].pc = "done"
    /\ DeleteStart(w, API_KEY, rt.N)
    /\ rt' = [rt EXCEPT !.step = 3, !.replies = Append(@, Reply(req[w]))]
    /\ UNCHANGED <<store, tmp, now, started, helper>>

RtListAgain(w) ==
    /\ rt.step = 3
    /\ req[w].pc = "done"
    /\ ListStart(w, UNDEFINED)
    /\ rt' = [rt EXCEPT !.step = 4, !.replies = Append(@, Reply(req[w]))]
    /\ UNCHANGED <<store, tmp, now, started, helper>>

RtEnd(w) ==
    /\ rt.step = 4
    /\ req[w].pc = "done"
    /\ rt' = [rt EXCEPT !.step = 5, !.replies = Append(@, Reply(req[w]))]
    /\ UNCHANGED <<store, tmp, now, started, req, helper>>

(***************************************************************************)
(* Direct calls of the two security helpers, on every short string.        *)
(***************************************************************************)
\* Longest argument of a direct call.
MaxLen == 4

\* The strings over an alphabet up to a length.
Strings(alphabet, n) == UNION {[1..k -> alphabet] : k \in 0..n}

SanitizeInputs == Strings({"a", ".", "/", "\\", " "}, MaxLen)

PathInputs == Strings({"/", "w", "2", "."}, MaxLen)

RootInputs == {SLASH, WEBSITE_DIR, WEBSITE_DIR \o SLASH}

HelperIdle == [fn |-> "none", a |-> <<>>, b |-> <<>>, done |-> FALSE, out |-> <<>>]

HelperInputs ==
    {[fn |-> "sanitizeFilename", a |-> s, b |-> <<>>, done |-> FALSE, out |-> <<>>] :
        s \in SanitizeInputs} \cup
    {[fn |-> "sanitizeTwice", a |-> s, b |-> <<>>, done |-> FALSE, out |-> <<>>] :
        s \in SanitizeInputs} \cup
    {[fn |-> "deployGuard", a |-> pr[1], b |-> pr[2], done |-> FALSE, out |-> FALSE] :
        pr \in {n \in SanitizeInputs : Truthy(n)} \X RootInputs} \cup
    {[fn |-> "validateFilePath", a |-> pr[1], b |-> pr[2], done |-> FALSE, out |-> FALSE] :
        pr \in PathInputs \X RootInputs}

CallSanitize ==
    /\ helper.fn = "sanitizeFilename"
    /\ ~helper.done
    /\ helper' = [helper EXCEPT !.done = TRUE, !.out = sanitizeFilename(helper.a)]
    /\ UNCHANGED <<store, tmp, now, started, req, rt>>

\* sanitizeFilename applied to its own result: out keeps both results.
CallSanitizeTwice ==
    /\ helper.fn = "sanitizeTwice"
    /\ ~helper.done
    /\ helper' = [helper EXCEPT
                     !.done = TRUE,
                     !.out = <<sanitizeFilename(helper.a),
                               sanitizeFilename(sanitizeFilename(helper.a))>>]
    /\ UNCHANGED <<store, tmp, now, started, req, rt>>

\* The name Deploy builds from a supplied name.
SafeHtmlName(filename) ==
    LET safe == sanitizeFilename(filename)
    IN  IF EndsWith(safe, HTML_EXT) THEN safe ELSE safe \o HTML_EXT

\* The path guard on a name joined onto a storage root.
GuardOfName(name, root) == validateFilePath(Join(root, name), root)

\* Deploy's naming and path guard for a supplied name, on a server
\* configured with the storage root b.
CallDeployGuard ==
    /\ helper.fn = "deployGuard"
    /\ ~helper.done
    /\ helper' = [helper EXCEPT !.done = TRUE,
                                !.out = GuardOfName(SafeHtmlName(helper.a), helper.b)]
    /\ UNCHANGED <<store, tmp, now, started, req, rt>>

CallValidate ==
    /\ helper.fn = "validateFilePath"
    /\ ~helper.done
    /\ helper' = [helper EXCEPT !.done = TRUE, !.out = validateFilePath(helper.a, helper.b)]
    /\ UNCHANGED <<store, tmp, now, started, req, rt>>

(***************************************************************************)
(* Specifications.                                                         *)
(***************************************************************************)
\* The server after startServer, having received n requests before the run.
InitServer(n) ==
    /\ store \in InitStores
    /\ tmp = [p \in {} |-> <<>>]
    /\ now = 1
    /\ started = n
    /\ req = [w \in Workers |-> Blank]
    /\ rt = RtIdle

Init ==
    /\ InitServer(0)
    /\ helper = HelperIdle

\* Requests served one after the other.
Next ==
    \/ \E w \in SeqWorkers : DeployBegin(w)
    \/ \E w \in SeqWorkers : DeployAccess(w)
    \/ \E w \in SeqWorkers : DeployWrite(w)
    \/ \E w \in SeqWorkers : UploadBegin(w)
    \/ \E w \in SeqWorkers : UploadRead(w)
    \/ \E w \in SeqWorkers : UploadAccess(w)
    \/ \E w \in SeqWorkers : UploadWrite(w)
    \/ \E w \in SeqWorkers : ListBegin(w)
    \/ \E w \in SeqWorkers : ListStat(w)
    \/ \E w \in SeqWorkers : DeleteBegin(w)
    \/ \E w \in SeqWorkers : DeleteAccess(w)
    \/ \E w \in SeqWorkers : DeleteUnlink(w)
    \/ \E w \in SeqWorkers : HealthBegin(w)
    \/ \E w \in SeqWorkers : HealthWrite(w)
    \/ \E w \in SeqWorkers : HealthUnlink(w)
    \/ Tick

Spec == Init /\ [][Next]_vars

\* The same, followed by the round-trip client.
RoundTripNext ==
    \/ Next
    \/ \E w \in SeqWorkers : RtDeploy(w)
    \/ \E w \in SeqWorkers : RtList(w)
    \/ \E w \in SeqWorkers : RtDelete(w)
    \/ \E w \in SeqWorkers : RtListAgain(w)
    \/ \E w \in SeqWorkers : RtEnd(w)

RoundTripInit ==
    /\ InitServer(1)
    /\ helper = HelperIdle

RoundTripSpec == RoundTripInit /\ [][RoundTripNext]_vars

\* The helpers called directly.
PureInit ==
    /\ InitServer(0)
    /\ helper \in HelperInputs

PureNext == CallSanitize \/ CallSanitizeTwice \/ CallDeployGuard \/ CallValidate

PureSpec == PureInit /\ [][PureNext]_vars

\* Deploy requests served concurrently: the handlers of two requests
\* interleave at their awaits.
ConcurrentNames == {UNDEFINED, <<"a">>}
ConcurrentHtml == {<<"a">>, <<"E9">>}

\* A Deploy with the configured key and a well-formed body arrives.
ConcurrentDeployBegin(w) ==
    /\ CanStart(w)
    /\ \E filename \in ConcurrentNames :
         \E html \in ConcurrentHtml :
           DeployStart(w, API_KEY, filename, html)
    /\ started' = started + 1
    /\ UNCHANGED <<store, tmp, now, rt, helper>>

ConcurrentNext ==
    \/ \E w \in Workers : ConcurrentDeployBegin(w)
    \/ \E w \in Workers : DeployAccess(w)
    \/ \E w \in Workers : DeployWrite(w)
    \/ Tick

ConcurrentSpec == Init /\ [][ConcurrentNext]_vars

\* One more Deploy without a name, sent once a Deploy without a name has
\* been answered success; it is served by the second handler instance, so
\* that the first response stays at hand, and nothing else is received
\* after it.
DeployAgainBegin ==
    /\ req[1].kind = "deploy" /\ ~Truthy(req[1].filename) /\ req[1].status = 200
    /\ req[2].pc = "idle"
    /\ started <= MaxRequests
    /\ rt.step = 0
    /\ \E html \in {h \in HtmlInputs : Truthy(h)} :
         DeployStart(2, API_KEY, UNDEFINED, html)
    /\ started' = MaxRequests + 1
    /\ UNCHANGED <<store, tmp, now, rt, helper>>

TwiceNext ==
    \/ Next
    \/ DeployAgainBegin
    \/ DeployAccess(2)
    \/ DeployWrite(2)

TwiceSpec == Init /\ [][TwiceNext]_vars

\* The variants without key, sanitizer and path guard, their requests
\* served one after the other.
PlainNext ==
    \/ \E w \in SeqWorkers : PlainDeployBegin(w)
    \/ \E w \in SeqWorkers : PlainFetch(w)
    \/ \E w \in SeqWorkers : PlainText(w)
    \/ \E w \in SeqWorkers : PlainDeployWrite(w)
    \/ \E w \in SeqWorkers : PlainUploadBegin(w)
    \/ \E w \in SeqWorkers : PlainUploadRead(w)
    \/ \E w \in SeqWorkers : PlainUploadWrite(w)
    \/ \E w \in SeqWorkers : PlainDeleteBegin(w)
    \/ \E w \in SeqWorkers : PlainDeleteAccess(w)
    \/ \E w \in SeqWorkers : PlainDeleteUnlink(w)
    \/ \E w \in SeqWorkers : SimpleDeleteBegin(w)
    \/ \E w \in SeqWorkers : SimpleDeleteUnlink(w)
    \/ Tick

PlainSpec == Init /\ [][PlainNext]_vars

\* The Deploy of index.ts alone. A handler whose await has completed is
\* eventually run on by the event loop.
FetchNext ==
    \/ \E w \in SeqWorkers : PlainDeployBegin(w)
    \/ \E w \in SeqWorkers : PlainFetch(w)
    \/ \E w \in SeqWorkers : PlainText(w)
    \/ \E w \in SeqWorkers : PlainDeployWrite(w)
    \/ Tick

FetchFairness ==
    \A w \in SeqWorkers :
        /\ WF_vars(PlainFetch(w))
        /\ WF_vars(PlainText(w))
        /\ WF_vars(PlainDeployWrite(w))

FetchSpec == Init /\ [][FetchNext]_vars /\ FetchFairness

\* :filename of the Deletes that run concurrently: a deployed file, a
\* file that was never deployed.
ConcurrentDeleteNames == {A_HTML, <<"e">>}

\* A Delete with the configured key arrives.
ConcurrentDeleteBegin(w) ==
    /\ CanStart(w)
    /\ \E filename \in ConcurrentDeleteNames : DeleteStart(w, API_KEY, filename)
    /\ started' = started + 1
    /\ UNCHANGED <<store, tmp, now, rt, helper>>

\* List and Delete requests served concurrently: the handlers of two
\* requests interleave at their awaits.
ListDeleteNext ==
    \/ \E w \in Workers : ListBegin(w)
    \/ \E w \in Workers : ListStat(w)
    \/ \E w \in Workers : ConcurrentDeleteBegin(w)
    \/ \E w \in Workers : DeleteAccess(w)
    \/ \E w \in Workers : DeleteUnlink(w)
    \/ Tick

ListDeleteSpec == Init /\ [][ListDeleteNext]_vars

\* Health requests served concurrently.
HealthNext ==
    \/ \E w \in Workers : HealthBegin(w)
    \/ \E w \in Workers : HealthWrite(w)
    \/ \E w \in Workers : HealthUnlink(w)
    \/ Tick

HealthSpec == Init /\ [][HealthNext]_vars

(***************************************************************************)
(* Properties.                                                             *)
(***************************************************************************)
\* The segments of the absolute, normalized form of a path.
PathSegments(p) == NormalizeSegs(Split(Resolve(p)), FALSE)

\* p is the directory dir or lies below it.
IsWithinDir(p, dir) ==
    LET ps == PathSegments(p)
        ds == PathSegments(dir)
    IN  /\ Len(ds) <= Len(ps)
        /\ SubSeq(ps, 1, Len(ds)) = ds

\* The paths a request has written or removed, its own staged upload aside.
StoreMutations(r) ==
    {r.trace[i][2] : i \in {j \in DOMAIN r.trace :
                              /\ r.trace[j][1] \in {"writeFile", "unlink"}
                              /\ r.trace[j][2] # r.tmpPath}}

\* A name with a separator or a parent reference in it.
IsTraversalPayload(name) ==
    \/ Includes(name, DOTDOT)
    \/ Includes(name, SLASH)
    \/ Includes(name, BACKSLASH)

\* C1: every write and every removal a Deploy, Upload or Delete request
\* performs targets a path within the storage root (the root or below it),
\* and the files outside the root stay as they were.
C1_PathSafety ==
    /\ \A w \in Workers :
         req[w].kind \in {"deploy", "upload", "delete"} =>
            \A p \in StoreMutations(req[w]) : IsWithinDir(p, WEBSITE_DIR)
    /\ \A p \in DOMAIN store : ~IsWithinDir(p, WEBSITE_DIR) => p = OUTSIDE_FILE
    /\ OUTSIDE_FILE \in DOMAIN store
    /\ store[OUTSIDE_FILE] = <<97>>

\* C1 witness: a Deploy named "../e" has answered success and its file is
\* in the store.
C1_Witness ==
    \E w \in Workers :
        /\ req[w].kind = "deploy"
        /\ req[w].filename = TRAVERSAL
        /\ req[w].status = 200
        /\ req[w].filePath \in DOMAIN store

\* C2: the sanitizer's result for an input holding "/", "\" or ".." holds
\* none of the three.
C2_SanitizeRemovesTokens ==
    (/\ helper.fn = "sanitizeFilename"
     /\ helper.done
     /\ IsTraversalPayload(helper.a))
    => ~IsTraversalPayload(helper.out)

\* C3: the path guard answers true exactly for the paths that are the root
\* or lie below it, for every root.
C3_GuardExact ==
    (helper.fn = "validateFilePath" /\ helper.done)
    => (helper.out <=> IsWithinDir(helper.a, helper.b))

\* A name the sanitizer keeps, without the extension and not empty.
IsPlainName(x) ==
    /\ Truthy(x)
    /\ sanitizeFilename(x) = x
    /\ ~EndsWith(x, HTML_EXT)

\* The names x-<timestamp>.html.
Disambiguated(x) == {x \o <<"-">> \o DecimalString(t) \o HTML_EXT : t \in 1..MaxTime}

\* Every file of `old` is in `new` with the same content.
Preserves(old, new) ==
    \A p \in DOMAIN old : p \in DOMAIN new /\ new[p] = old[p]

\* C4: a successful Deploy named x, received while x.html exists, answers
\* a name x-<timestamp>.html that no file had when the request arrived, and
\* every file that existed then still has its content.
C4_DisambiguatedNameIsFresh ==
    \A w \in SeqWorkers :
        LET r == req[w]
        IN  (/\ r.kind = "deploy"
             /\ r.status = 200
             /\ IsPlainName(r.filename)
             /\ Join(WEBSITE_DIR, r.filename \o HTML_EXT) \in DOMAIN r.before)
            => /\ r.respFilename \in Disambiguated(r.filename)
               /\ Join(WEBSITE_DIR, r.respFilename) \notin DOMAIN r.before
               /\ Preserves(r.before, store)

\* C5: once a Deploy served alone has answered success with name N, the
\* store is the store the request found with the file N holding exactly
\* the UTF-8 bytes of the submitted html, and the response names N.
C5_DeployWritesExactly ==
    \A w \in SeqWorkers :
        LET r == req[w]
        IN  (r.kind = "deploy" /\ r.status = 200)
            => /\ r.respFilename = r.finalFilename
               /\ r.filePath = Join(WEBSITE_DIR, r.respFilename)
               /\ store = Put(r.before, r.filePath, Utf8(r.html))

\* C5 witness: a successful Deploy whose target already held other bytes.
C5_Witness ==
    \E w \in SeqWorkers :
        /\ req[w].kind = "deploy"
        /\ req[w].status = 200
        /\ req[w].filePath \in DOMAIN req[w].before
        /\ req[w].before[req[w].filePath] # Utf8(req[w].html)
        /\ req[w].before[req[w].filePath] # <<>>

\* C7: an authenticated Delete whose name holds "..", "/" or "\", or which
\* the sanitizer changes, is answered 400 without any file-system call and
\* with the store as the request found it.
C7_TraversalDeleteRejected ==
    \A w \in SeqWorkers :
        LET r == req[w]
        IN  (/\ r.kind = "delete"
             /\ authenticate(r.key)
             /\ \/ IsTraversalPayload(r.filename)
                \/ sanitizeFilename(r.filename) # r.filename)
            => /\ r.pc = "done"
               /\ r.status = 400
               /\ r.trace = <<>>
               /\ store = r.before

\* C7 witness: the Delete of "../e" and of ".." have been answered.
C7_Witness ==
    \E w \in SeqWorkers :
        /\ req[w].kind = "delete"
        /\ req[w].filename \in {TRAVERSAL, DOTDOT}
        /\ req[w].status = 400
        /\ OUTSIDE_FILE \in DOMAIN store

\* A name that passes Delete's validation.
IsValidDeleteName(name) ==
    /\ ~IsTraversalPayload(name)
    /\ sanitizeFilename(name) = name

\* C8: an authenticated Delete of a valid name that names no file of the
\* storage root is answered 404 and leaves the store as it found it.
C8_DeleteMissingIsNotFound ==
    \A w \in SeqWorkers :
        LET r == req[w]
        IN  (/\ r.kind = "delete"
             /\ r.pc = "done"
             /\ authenticate(r.key)
             /\ IsValidDeleteName(r.filename)
             /\ r.filename \notin Readdir(DOMAIN r.before, WEBSITE_DIR))
            => /\ r.status = 404
               /\ store = r.before

\* The entries of a listing with a given name.
EntriesNamed(files, name) == {i \in DOMAIN files : files[i].filename = name}

\* C9: after the nameless Deploy of C has answered N, the listing succeeds
\* and has exactly one entry named N, of size the byte length of C; the
\* Delete of N then succeeds; the next listing succeeds and has no entry N.
C9_RoundTrip ==
    /\ Len(rt.replies) >= 1 =>
          /\ rt.replies[1].status = 200
          /\ Cardinality(EntriesNamed(rt.replies[1].files, rt.N)) = 1
          /\ \A i \in EntriesNamed(rt.replies[1].files, rt.N) :
                rt.replies[1].files[i].size = Len(Utf8(rt.C))
    /\ Len(rt.replies) >= 2 => rt.replies[2].status = 200
    /\ Len(rt.replies) >= 3 =>
          /\ rt.replies[3].status = 200
          /\ EntriesNamed(rt.replies[3].files, rt.N) = {}

\* C9 witness: the client has finished a round trip with a two-byte
\* character as content, in a store that holds other files.
C9_Witness ==
    /\ rt.step = 5
    /\ rt.C = <<"E9">>
    /\ rt.replies[1].files # <<>>
    /\ Len(rt.replies[1].files) >= 2

\* C10: a Deploy, Upload or Delete whose key is missing or wrong is
\* answered 401 with no file-system call made, the store as the request
\* found it and no upload staged; List and Health are never answered 401,
\* whatever the key.
C10_AuthGate ==
    \A w \in SeqWorkers :
        LET r == req[w]
        IN  /\ (r.kind \in {"deploy", "upload", "delete"} /\ r.key # API_KEY)
               => /\ r.pc = "done"
                  /\ r.status = 401
                  /\ r.trace = <<>>
                  /\ store = r.before
                  /\ DOMAIN tmp = {}
            /\ (r.kind \in {"list", "health"} /\ r.pc = "done")
               => r.status \in {200, 500, 503}

\* C10 witness: an Upload without key has been answered 401 by a server
\* that holds a deployed file.
C10_Witness ==
    \E w \in SeqWorkers :
        /\ req[w].kind = "upload"
        /\ req[w].key = UNDEFINED
        /\ req[w].status = 401
        /\ DOMAIN store # {OUTSIDE_FILE}

\* Two Deploys of the same explicit name that both found the name free.
BothPassedCheck(w1, w2) ==
    /\ w1 # w2
    /\ req[w1].kind = "deploy" /\ req[w2].kind = "deploy"
    /\ Truthy(req[w1].filename)
    /\ req[w1].filename = req[w2].filename
    /\ req[w1].pc \in {"deployWrite", "done"} /\ req[w2].pc \in {"deployWrite", "done"}
    /\ req[w1].trace # <<>> /\ req[w2].trace # <<>>
    /\ req[w1].filePath # <<>> /\ req[w2].filePath # <<>>
    /\ ~req[w1].renamed /\ ~req[w2].renamed

\* C6: two concurrent Deploys of the same explicit name that both passed
\* the existence check target the same path; once both have answered
\* success they carry the same final name and the file holds the content
\* of exactly one of them, so the other content is lost when they differ.
C6_LostUpdate ==
    \A w1, w2 \in Workers :
        BothPassedCheck(w1, w2) =>
            /\ req[w1].filePath = req[w2].filePath
            /\ req[w1].finalFilename = req[w2].finalFilename
            /\ (req[w1].status = 200 /\ req[w2].status = 200) =>
                  /\ req[w1].respFilename = req[w2].respFilename
                  /\ req[w1].filePath \in DOMAIN store
                  /\ store[req[w1].filePath] \in {Utf8(req[w1].html), Utf8(req[w2].html)}

\* C6 witness: both Deploys answered success with the same name, neither
\* was disambiguated, and the content of the first is not in the store.
C6_Witness ==
    /\ BothPassedCheck(1, 2)
    /\ req[1].status = 200 /\ req[2].status = 200
    /\ req[1].respFilename = req[2].respFilename
    /\ Utf8(req[1].html) # Utf8(req[2].html)
    /\ store[req[1].filePath] = Utf8(req[2].html)
    /\ \A p \in DOMAIN store : store[p] # Utf8(req[1].html)

\* The file-system calls a handler makes on a path.
FsOps == {"access", "stat", "readFile", "writeFile", "unlink"}

\* The path guard was called on the path of the i-th call of a request
\* before that call.
GuardedBefore(r, i) ==
    \E j \in 1..(i - 1) : r.trace[j] = <<"validateFilePath", r.trace[i][2]>>

\* C11: in Deploy, Upload, List and Delete, every file-system call on a
\* path joined onto the storage root (a path below the root) comes after a
\* call of the path guard on that path.
C11_GuardBeforeFsCall ==
    \A w \in SeqWorkers :
        LET r == req[w]
        IN  r.kind \in {"deploy", "upload", "list", "delete"} =>
              \A i \in DOMAIN r.trace :
                 (/\ r.trace[i][1] \in FsOps
                  /\ r.trace[i][2] # WEBSITE_DIR
                  /\ IsWithinDir(r.trace[i][2], WEBSITE_DIR))
                 => GuardedBefore(r, i)

\* The tokens crypto.randomBytes(8).toString("hex") can give here.
Tokens == {HexEncode(b) : b \in RandomOutcomes}

\* A Deploy without a usable name that has answered success.
IsNamelessDeployDone(r) ==
    /\ r.kind = "deploy"
    /\ ~Truthy(r.filename)
    /\ r.status = 200

C13_TwoNamelessDeploysDiffer ==
    (/\ IsNamelessDeployDone(req[1])
     /\ IsNamelessDeployDone(req[2]))
    => req[1].respFilename # req[2].respFilename

\* C14: an Upload that staged its file and has been answered has called
\* fs.unlink on the staged file, whatever the exit path.
C14_TempFileRemoved ==
    \A w \in SeqWorkers :
        LET r == req[w]
        IN  (/\ r.kind \in {"upload", "plainUpload"}
             /\ r.pc = "done"
             /\ r.tmpPath # <<>>)
            => \E i \in DOMAIN r.trace : r.trace[i] = <<"unlink", r.tmpPath>>

\* C15: every Deploy of index.ts that has started to fetch its url is
\* eventually answered.
C15_FetchResponds ==
    \A w \in SeqWorkers :
        (req[w].kind = "plainDeploy" /\ req[w].pc = "plainFetch") ~> (req[w].pc = "done")

\* C16: every write and every removal a request of index.ts or of
\* simple-api.js performs targets a path within the storage root, and the
\* files outside the root stay as they were.
C16_PlainPathSafety ==
    /\ \A w \in SeqWorkers :
          req[w].kind \in {"plainDeploy", "plainUpload", "plainDelete", "simpleDelete"} =>
             \A p \in StoreMutations(req[w]) : IsWithinDir(p, WEBSITE_DIR)
    /\ \A p \in DOMAIN store : ~IsWithinDir(p, WEBSITE_DIR) => p = OUTSIDE_FILE
    /\ OUTSIDE_FILE \in DOMAIN store
    /\ store[OUTSIDE_FILE] = <<97>>

\* The final segment of the path of a url, without the extension when it
\* ends in it.
UrlCandidate(url) ==
    LET stop == FirstOf(url, {"?", "#"}, 1)
        path == SubSeq(url, 1, stop - 1)
        segment == Basename(SubSeq(path, IndexOf(path, SCHEME_SEP) + Len(SCHEME_SEP), Len(path)))
    IN  IF EndsWith(segment, HTML_EXT)
        THEN SubSeq(segment, 1, Len(segment) - Len(HTML_EXT))
        ELSE segment

\* C20: a Deploy of index.ts with a url and no filename whose fetch
\* succeeded answers the final segment of the url's path, the extension
\* stripped, plus ".html"; when the remote server answers a status that is
\* not a success, the request fails with that status in the error and the
\* store is as the request found it.
C20_UrlNaming ==
    \A w \in SeqWorkers :
        LET r == req[w]
            fetched == r.kind = "plainDeploy" /\ r.pc = "done" /\ IsValidUrl(r.url)
                       /\ r.upstream.answers
        IN  /\ (fetched /\ ~Truthy(r.filename) /\ r.status = 200)
               => r.respFilename = UrlCandidate(r.url) \o HTML_EXT
            /\ (fetched /\ r.upstream.status \notin (200..299) \cup {0})
               => /\ r.status = 400
                  /\ r.errorStatus = r.upstream.status
                  /\ store = r.before

\* The name Upload uses when the body names none.
UploadDefaultName(originalname) ==
    LET safe == sanitizeFilename(originalname)
    IN  IF EndsWith(safe, HTML_EXT) THEN safe ELSE ParseName(safe) \o HTML_EXT

\* A supplied name that the sanitizer collapses to the empty string.
CollapsesToEmpty(name) == Truthy(name) /\ sanitizeFilename(name) = <<>>

\* C18: a Deploy or Upload whose supplied name the sanitizer collapses to
\* the empty string answers the name it would answer without a supplied
\* name: a generated one for Deploy, the uploaded file's for Upload (or
\* the disambiguation of that name).
C18_EmptyNameFallsBack ==
    \A w \in SeqWorkers :
        LET r == req[w]
        IN  (r.status = 200 /\ CollapsesToEmpty(r.filename)) =>
              /\ r.kind = "deploy" =>
                    \E t \in Tokens : r.respFilename \in {t \o HTML_EXT} \cup Disambiguated(t)
              /\ r.kind = "upload" =>
                    r.respFilename \in {UploadDefaultName(r.originalname)}
                       \cup Disambiguated(ParseName(UploadDefaultName(r.originalname)))

\* C19: every file a Deploy or an Upload writes in the storage root has a
\* name that ends in ".html".
C19_CreatedFilesAreHtml ==
    \A w \in SeqWorkers :
        LET r == req[w]
        IN  r.kind \in {"deploy", "upload"} =>
              \A i \in DOMAIN r.trace :
                 r.trace[i][1] = "writeFile" => EndsWith(r.trace[i][2], HTML_EXT)

\* C17: sanitizing the result of sanitizeFilename gives the same string,
\* and the result is the final path segment of the input with every
\* character kept that is a letter, a digit, "_", "-" or ".", and "_" in
\* the place of every other one.
C17_SanitizeIdempotent ==
    (helper.fn = "sanitizeTwice" /\ helper.done) =>
        LET once == helper.out[1]
            again == helper.out[2]
            segment == Basename(helper.a)
        IN  /\ again = once
            /\ Len(once) = Len(segment)
            /\ \A i \in 1..Len(once) :
                  /\ once[i] \in SafeChars
                  /\ once[i] = segment[i] \/ (once[i] = "_" /\ segment[i] \notin SafeChars)
            /\ ~Includes(once, SLASH)
            /\ ~Includes(once, BACKSLASH)
            /\ ~Includes(once, <<" ">>)

\* C17 witness: a string with a directory part and two characters outside
\* the class has been sanitized twice.
C17_Witness ==
    /\ helper.fn = "sanitizeTwice"
    /\ helper.done
    /\ helper.a = <<"a", "/", " ", "\\">>
    /\ helper.out = << <<"_", "_">>, <<"_", "_">> >>

\* C21: the path Deploy builds from a supplied name passes the path
\* guard, whatever the name and the storage root, so that the request is
\* not answered 403.
C21_GuardNeverFails ==
    (helper.fn = "deployGuard" /\ helper.done) => helper.out = TRUE

\* A final name passes Delete's name validation and path guard.
IsDeletable(name) == DeletePlan(name).status = 0

\* C22: the final name a successful Deploy or Upload answers passes
\* Delete's name validation, so that a Delete of it is not rejected.
C22_FinalNameIsDeletable ==
    \A w \in SeqWorkers :
        LET r == req[w]
        IN  (r.kind \in {"deploy", "upload"} /\ r.status = 200)
            => /\ sanitizeFilename(r.respFilename) = r.respFilename
               /\ ~IsTraversalPayload(r.respFilename)
               /\ IsDeletable(r.respFilename)

\* C23: the path Delete hands to fs.access and to fs.unlink is a direct
\* child of the storage root, never the root itself.
C23_DeleteTargetsChild ==
    \A w \in SeqWorkers :
        LET r == req[w]
        IN  r.kind = "delete" =>
              \A i \in DOMAIN r.trace :
                 r.trace[i][1] \in {"access", "unlink"} =>
                    /\ r.trace[i][2] # WEBSITE_DIR
                    /\ \E name \in DeleteNames :
                          /\ ~Includes(name, SLASH)
                          /\ r.trace[i][2] = WEBSITE_DIR \o SLASH \o name


\* C24: a List that has been answered while Deletes ran was answered
\* success.
C24_ListSurvivesDelete ==
    \A w \in Workers :
        (req[w].kind = "list" /\ req[w].pc = "done") => req[w].status = 200

\* Two Deletes of the same file, each received while the file existed.
SameFileDeletes(w1, w2) ==
    /\ w1 # w2
    /\ req[w1].kind = "delete" /\ req[w2].kind = "delete"
    /\ req[w1].filePath = req[w2].filePath
    /\ req[w1].filePath \in DOMAIN req[w1].before
    /\ req[w2].filePath \in DOMAIN req[w2].before

\* C25: of two concurrent Deletes of the same existing file none is
\* answered 500; once both are answered, one was answered success and the
\* other 404, and the file is gone.
C25_OneDeleteWins ==
    \A w1, w2 \in Workers :
        SameFileDeletes(w1, w2) =>
            /\ req[w1].status # 500
            /\ (req[w1].pc = "done" /\ req[w2].pc = "done") =>
                  /\ {req[w1].status, req[w2].status} = {200, 404}
                  /\ req[w1].filePath \notin DOMAIN store

\* C25 witness: both Deletes passed the existence check, one removed the
\* file and the removal of the other failed.
C25_Witness ==
    /\ SameFileDeletes(1, 2)
    /\ req[1].status = 200
    /\ req[2].status = 404
    /\ \E i \in DOMAIN req[2].trace : req[2].trace[i][1] = "unlink"

\* A Health request whose probe write succeeded (the storage root is
\* writable) and which has been answered.
HealthProbed(r) ==
    /\ r.kind = "health"
    /\ r.pc = "done"
    /\ \E i \in DOMAIN r.trace : r.trace[i][1] = "unlink"

\* C26: a Health request whose probe write succeeded is answered ok, also
\* when another Health request runs at the same time, and once all such
\* requests are answered no probe file is in the store.
C26_HealthOk ==
    /\ \A w \in Workers : HealthProbed(req[w]) => req[w].status = 200
    /\ (\A w \in Workers : HealthProbed(req[w])) => HEALTH_FILE \notin DOMAIN store

====
